---- MODULE Spec2Model ----
(***************************************************************************)
(* Model of scripts/run-citeproc-tests.py: the citeproc-js fixture runner. *)
(*                                                                         *)
(* The state machine is main(): the corpus directory check, the parse      *)
(* loop, the run loop (run_test, suspended only while the engine           *)
(* subprocess runs) and the report.  Three specifications share its        *)
(* actions and differ in the corpus the run starts from:                   *)
(*   Spec      up to MaxFiles files drawn from CoreContents;               *)
(*   SpecOne   one file drawn from the product of the section variants,    *)
(*             or whose INPUT is a list of up to MaxItems records;         *)
(*   FairSpec  Spec with the fairness of a sequential program whose        *)
(*             subprocess wait is bounded by a timer.                      *)
(*                                                                         *)
(* Python values are tagged records, so that values of different Python    *)
(* types can be compared.  A Python function that can raise returns        *)
(* Ok(value) or Raise(exception class).                                    *)
(***************************************************************************)
EXTENDS Integers, Sequences, FiniteSets, TLC

VARIABLES
    dirExists,      \* fixtures_dir.exists()
    fixture_files,  \* the sorted *.txt files left by --category and --limit
    pc,             \* position of main()
    fidx,           \* 1-based index of the parse loop
    fixtures,       \* list of parsed TestFixture
    ridx,           \* 1-based index of the run loop
    results,        \* list of verdicts appended by main
    result,         \* the verdict run_test holds while the engine runs
    temp_dir,       \* files present in build/citeproc-tests
    engine_calls,   \* names of the fixtures subprocess.run was called for
    report,         \* what generate_report wrote, None before
    outcomes        \* history: what happened to the fixture of each verdict

vars == <<dirExists, fixture_files, pc, fidx, fixtures, ridx, results,
          result, temp_dir, engine_calls, report, outcomes>>

(***************************************************************************)
(* Bounds of the model.                                                    *)
(***************************************************************************)
MaxFiles == 2   \* fixture files in the corpus directory
MaxItems == 2   \* records of an INPUT list given to the pure functions

(***************************************************************************)
(* Python values.                                                          *)
(***************************************************************************)
None == [t |-> "None"]
JStr(s) == [t |-> "str", s |-> s]
JNum(n) == [t |-> "num", n |-> n]
JList(xs) == [t |-> "list", items |-> xs]
JDict(ps) == [t |-> "dict", d |-> ps]       \* ps: sequence of <<key, value>>
Csl(frags) == [t |-> "text", frags |-> frags] \* a str as its fragments

\* A str known by its source and its length, and text[:n]
Chars(src, n) == [t |-> "chars", src |-> src, len |-> n]
Slice(text, n) == [text EXCEPT !.len = IF @ < n THEN @ ELSE n]

Ok(v) == [ok |-> TRUE, v |-> v]
Raise(e) == [ok |-> FALSE, exc |-> e]

\* bool(v)
Truthy(v) ==
    CASE v.t = "None" -> FALSE
      [] v.t = "str" -> v.s # ""
      [] v.t = "num" -> v.n # 0
      [] v.t = "list" -> v.items # <<>>
      [] v.t = "dict" -> v.d # <<>>
      [] v.t = "text" -> v.frags # <<>>
      [] v.t = "chars" -> v.len # 0
      [] OTHER -> TRUE

\* key in d
HasKey(v, k) == v.t = "dict" /\ \E j \in 1..Len(v.d) : v.d[j][1] = k

\* d.get(k, dflt)
Get(v, k, dflt) ==
    IF HasKey(v, k)
    THEN v.d[CHOOSE j \in 1..Len(v.d) : v.d[j][1] = k][2]
    ELSE dflt

\* str(v), as an f-string formats it
Str(v) ==
    CASE v.t = "str" -> v.s
      [] v.t = "num" -> ToString(v.n)
      [] v.t = "None" -> "None"
      [] OTHER -> "<object>"

\* needle in text
Contains(text, needle) == \E k \in 1..Len(text.frags) : text.frags[k] = needle

LowerFrag(s) == IF s = "CSL-M" THEN "csl-m" ELSE s

\* text.lower()
Lower(text) == Csl([k \in 1..Len(text.frags) |-> LowerFrag(text.frags[k])])

(***************************************************************************)
(* json.loads.  A text that is valid JSON is modelled by the value it      *)
(* encodes (JsonText), any other non-empty text by BadJson.                *)
(***************************************************************************)
JsonText(v) == [t |-> "str", s |-> "<json>", val |-> v]
BadJson == JStr("not json")

json_loads(raw) ==
    IF raw.t # "str" THEN Raise("TypeError")
    ELSE IF raw.s = "<json>" THEN Ok(raw.val)
    ELSE Raise("JSONDecodeError")

(***************************************************************************)
(* Fixture parsing.                                                        *)
(***************************************************************************)
Required == {"MODE", "RESULT", "CSL", "INPUT"}
Optional == {"CITATION-ITEMS", "CITATIONS", "ABBREVIATIONS"}

\* A section of a file: whether the section's regex matches the text and, if
\* so, the matched group after strip() ("" for a whitespace-only group).
NoSec == [matched |-> FALSE]
Sec(body) == [matched |-> TRUE, body |-> body]

extract_section(content, name) ==
    IF content[name].matched THEN content[name].body ELSE None

TestFixture(name, mode, res, csl, input_data, citation_items, citations, abbreviations) ==
    [t |-> "TestFixture", name |-> name, mode |-> mode, result |-> res,
     csl |-> csl, input_data |-> input_data,
     citation_items |-> citation_items, citations |-> citations,
     abbreviations |-> abbreviations]

\* json.loads(raw) if raw else None
LoadOptional(raw) == IF Truthy(raw) THEN json_loads(raw) ELSE Ok(None)

\* Variant of RequiredPresent: the check leaves INPUT out.
RequiredPresentNoInput(mode, res, csl, input_raw) ==
    Truthy(mode) /\ Truthy(res) /\ Truthy(csl)

\* all([mode, result, csl, input_raw])
RequiredPresent(mode, res, csl, input_raw) ==
    Truthy(mode) /\ Truthy(res) /\ Truthy(csl) /\ Truthy(input_raw)

parse_fixture(filepath) ==
    LET content == filepath.content
        mode == extract_section(content, "MODE")
        res == extract_section(content, "RESULT")
        csl == extract_section(content, "CSL")
        input_raw == extract_section(content, "INPUT")
    IN  IF ~RequiredPresent(mode, res, csl, input_raw)
        THEN Ok(None)
        ELSE
          LET input_data == json_loads(input_raw)
          IN  IF ~input_data.ok
              THEN IF input_data.exc = "JSONDecodeError"
                   THEN Ok(None) ELSE input_data
              ELSE
                LET citation_items ==
                        LoadOptional(extract_section(content, "CITATION-ITEMS"))
                    citations ==
                        LoadOptional(extract_section(content, "CITATIONS"))
                    abbreviations ==
                        LoadOptional(extract_section(content, "ABBREVIATIONS"))
                IN  IF ~citation_items.ok THEN citation_items
                    ELSE IF ~citations.ok THEN citations
                    ELSE IF ~abbreviations.ok THEN abbreviations
                    ELSE Ok(TestFixture(filepath.stem, mode, res, csl,
                                        input_data.v, citation_items.v,
                                        citations.v, abbreviations.v))

(***************************************************************************)
(* CSL-JSON to BibTeX conversion.  An entry is modelled by its type, its   *)
(* id and its title field; the other fields are copied text.               *)
(***************************************************************************)
type_map ==
    ("article" :> "article") @@ ("article-journal" :> "article") @@
    ("article-magazine" :> "article") @@ ("article-newspaper" :> "article") @@
    ("book" :> "book") @@ ("chapter" :> "incollection") @@
    ("paper-conference" :> "inproceedings") @@ ("thesis" :> "phdthesis") @@
    ("report" :> "techreport") @@ ("webpage" :> "misc") @@
    ("dataset" :> "misc")

\* The values a for loop over v yields: the items of a list, the keys of a
\* dict, the characters of a str (each a str; one stands for all of them).
Iterate(v) ==
    CASE v.t = "list" -> Ok(v.items)
      [] v.t = "dict" -> Ok([k \in 1..Len(v.d) |-> JStr(v.d[k][1])])
      [] v.t = "str" -> IF v.s = "" THEN Ok(<<>>) ELSE Ok(<<v>>)
      [] OTHER -> Raise("TypeError")

\* Variant of ItemId: the backfilled id uses the 0-based index.
ItemIdZeroBased(i, item) == Get(item, "id", JStr("ITEM-" \o ToString(i)))

\* Variant of ItemId: the backfilled id does not depend on the position.
ItemIdNoIndex(i, item) == Get(item, "id", JStr("ITEM-1"))

\* item.get('id', f'ITEM-{i+1}'), i the 0-based index of enumerate
ItemId(i, item) == Get(item, "id", JStr("ITEM-" \o ToString(i + 1)))

\* Variant of ItemType: a record without type is given no default type.
ItemTypeNoDefault(item) ==
    LET ty == Get(item, "type", None)
    IN  IF ty.t = "str" /\ ty.s \in DOMAIN type_map
        THEN type_map[ty.s] ELSE "misc"

\* type_map.get(item.get('type', 'book'), 'misc')
ItemType(item) ==
    LET ty == Get(item, "type", JStr("book"))
    IN  IF ty.t = "str" /\ ty.s \in DOMAIN type_map
        THEN type_map[ty.s] ELSE "misc"

\* One pass of the loop body: the entry of the item at 0-based index i.
BibEntry(i, item) ==
    LET item_id == ItemId(i, item)
    IN  [type |-> ItemType(item),
         id |-> Str(item_id),
         title |-> Str(Get(item, "title", JStr("Item " \o Str(item_id))))]

csl_json_to_bibtex(items) ==
    LET it == Iterate(items)
    IN  IF ~it.ok THEN it
        ELSE IF \E k \in 1..Len(it.v) : it.v[k].t # "dict"
        THEN Raise("AttributeError")
        ELSE Ok([k \in 1..Len(it.v) |-> BibEntry(k - 1, it.v[k])])

(***************************************************************************)
(* Typst test generation.                                                  *)
(***************************************************************************)
\* Variant of ClusterKeys: a key is appended for every entry of the cluster.
RECURSIVE ClusterKeysUnfiltered(_)
ClusterKeysUnfiltered(cites) ==
    IF cites = <<>> THEN <<>>
    ELSE <<Get(Head(cites), "id", None)>> \o ClusterKeysUnfiltered(Tail(cites))

\* The ids appended for one cluster.
RECURSIVE ClusterKeys(_)
ClusterKeys(cites) ==
    IF cites = <<>> THEN <<>>
    ELSE (IF HasKey(Head(cites), "id")
          THEN <<Get(Head(cites), "id", None)>> ELSE <<>>)
         \o ClusterKeys(Tail(cites))

RECURSIVE ClustersKeys(_)
ClustersKeys(clusters) ==
    IF clusters = <<>> THEN Ok(<<>>)
    ELSE LET c == Iterate(Head(clusters))
             rest == ClustersKeys(Tail(clusters))
         IN  IF ~c.ok THEN c
             ELSE IF ~rest.ok THEN rest
             ELSE Ok(ClusterKeys(c.v) \o rest.v)

CitationKeys(fixture) ==
    IF Truthy(fixture.citation_items)
    THEN LET cl == Iterate(fixture.citation_items)
         IN  IF ~cl.ok THEN cl ELSE ClustersKeys(cl.v)
    ELSE LET it == Iterate(fixture.input_data)
         IN  IF ~it.ok THEN it
             ELSE IF \E k \in 1..Len(it.v) : it.v[k].t # "dict"
             THEN Raise("AttributeError")
             ELSE Ok([k \in 1..Len(it.v) |-> ItemId(k - 1, it.v[k])])

generate_typst_test(fixture) ==
    LET keys == CitationKeys(fixture)
    IN  IF ~keys.ok THEN keys
        ELSE Ok([name |-> fixture.name,
                 citations |-> [k \in 1..Len(keys.v) |-> "@" \o Str(keys.v[k])],
                 has_bib |-> Contains(fixture.csl, "<bibliography")])

(***************************************************************************)
(* Test runner.                                                            *)
(***************************************************************************)
StderrLimit == 500

\* Lengths the environment gives a diagnostic text (the standard-error text
\* of the engine, the message of an OSError): empty, at the limit, beyond it.
TextLens == {0, StderrLimit, StderrLimit + 1}

\* Where the environment makes a file write or the process start raise.
Faults == {"none", "bib", "csl", "typ", "spawn"}

\* The result dict of run_test.  assigned counts the assignments to
\* result['status'] (an observation of the model, not a key of the dict).
NewResult(fixture) ==
    [name |-> fixture.name, mode |-> fixture.mode, status |-> "unknown",
     expected |-> fixture.result, actual |-> None, error |-> None,
     skipped_reason |-> None, assigned |-> 0]

SetStatus(r, status) == [r EXCEPT !.status = status, !.assigned = @ + 1]

\* The four skip conditions, in the order of the source.
UsesAbbreviations(fixture) == Truthy(fixture.abbreviations)
UsesNosort(fixture) == fixture.mode = JStr("bibliography-nosort")
UsesCslM(fixture) ==
    \/ Contains(fixture.csl, "xmlns:cs")
    \/ Contains(Lower(fixture.csl), "csl-m")
CitationOnly(fixture) ==
    /\ fixture.mode = JStr("citation")
    /\ ~Contains(fixture.csl, "<bibliography")

ReasonAbbreviations == JStr("Uses abbreviations (not supported)")
ReasonNosort == JStr("Uses nosort mode (not supported)")
ReasonCslM == JStr("Uses CSL-M extensions")
ReasonCitationOnly == JStr("Citation-only test (no bibliography in CSL)")

\* Variant of SkipReason: the CSL-M check comes before the nosort check.
SkipReasonCslMFirst(fixture) ==
    IF UsesAbbreviations(fixture) THEN ReasonAbbreviations
    ELSE IF UsesCslM(fixture) THEN ReasonCslM
    ELSE IF UsesNosort(fixture) THEN ReasonNosort
    ELSE IF CitationOnly(fixture) THEN ReasonCitationOnly
    ELSE None

\* The chain of early returns: the skip reason, None when run_test goes on.
SkipReason(fixture) ==
    IF UsesAbbreviations(fixture) THEN ReasonAbbreviations
    ELSE IF UsesNosort(fixture) THEN ReasonNosort
    ELSE IF UsesCslM(fixture) THEN ReasonCslM
    ELSE IF CitationOnly(fixture) THEN ReasonCitationOnly
    ELSE None

Skipped(r, reason) ==
    [SetStatus(r, "skipped") EXCEPT !.skipped_reason = reason]

\* Variant of OnTimeout: no clause for TimeoutExpired, so the clause for
\* Exception takes it.
OnTimeoutAsException(r) ==
    [SetStatus(r, "error") EXCEPT !.error = JStr("TimeoutExpired")]

\* except subprocess.TimeoutExpired
OnTimeout(r) ==
    [SetStatus(r, "timeout") EXCEPT !.error = JStr("Compilation timed out")]

\* str(e): the message of an OSError has a length the environment chooses;
\* the message of an exception Python raises (TypeError, AttributeError) is a
\* fixed short text, which the name of its class stands for.
ExcMessage(e, n) == IF e = "OSError" THEN Chars("OSError", n) ELSE JStr(e)

\* except Exception as e
OnException(r, e, n) ==
    [SetStatus(r, "error") EXCEPT !.error = ExcMessage(e, n)]

\* Variant of OnExit: the success path sets actual and leaves the status.
OnExitKeepsStatus(r, returncode, stderr) ==
    IF returncode # 0
    THEN [SetStatus(r, "error") EXCEPT !.error = Slice(stderr, StderrLimit)]
    ELSE [r EXCEPT !.actual = JStr("(PDF generated - manual comparison needed)")]

\* Variant of OnExit: the test of the return code is inverted.
OnExitInverted(r, returncode, stderr) ==
    IF returncode = 0
    THEN [SetStatus(r, "error") EXCEPT !.error = Slice(stderr, StderrLimit)]
    ELSE [SetStatus(r, "compiled") EXCEPT
             !.actual = JStr("(PDF generated - manual comparison needed)")]

\* After subprocess.run returned.
OnExit(r, returncode, stderr) ==
    IF returncode # 0
    THEN [SetStatus(r, "error") EXCEPT !.error = Slice(stderr, StderrLimit)]
    ELSE [SetStatus(r, "compiled") EXCEPT
             !.actual = JStr("(PDF generated - manual comparison needed)")]

\* path.write_text(content): the scratch directory maps a path, the pair
\* of a fixture name and an extension, to the content of the file.
Write(td, name, ext, content) ==
    [p \in DOMAIN td \cup {<<name, ext>>} |->
        IF p = <<name, ext>> THEN content ELSE td[p]]

\* The try block up to subprocess.run: the exception raised ("" for none)
\* and the scratch directory it leaves.
Artifacts(fixture, fault, td) ==
    LET bib_content == csl_json_to_bibtex(fixture.input_data)
        test_content == generate_typst_test(fixture)
        td1 == Write(td, fixture.name, "bib", bib_content.v)
        td2 == Write(td1, fixture.name, "csl", fixture.csl)
        td3 == Write(td2, fixture.name, "typ", test_content.v)
    IN  IF ~bib_content.ok THEN [exc |-> bib_content.exc, temp_dir |-> td]
        ELSE IF fault = "bib" THEN [exc |-> "OSError", temp_dir |-> td]
        ELSE IF fault = "csl" THEN [exc |-> "OSError", temp_dir |-> td1]
        ELSE IF ~test_content.ok
        THEN [exc |-> test_content.exc, temp_dir |-> td2]
        ELSE IF fault = "typ" THEN [exc |-> "OSError", temp_dir |-> td2]
        ELSE IF fault = "spawn" THEN [exc |-> "OSError", temp_dir |-> td3]
        ELSE [exc |-> "", temp_dir |-> td3]

\* Variant of run_test: the files are written before the skip conditions
\* are tested.
run_testWritesFirst(fixture, fault, n, td) ==
    LET r == NewResult(fixture)
        reason == SkipReason(fixture)
        art == Artifacts(fixture, fault, td)
    IN  IF reason # None
        THEN [result |-> Skipped(r, reason), called |-> FALSE,
              waits |-> FALSE, exc |-> "", temp_dir |-> art.temp_dir]
        ELSE IF art.exc # ""
        THEN [result |-> OnException(r, art.exc, n),
              called |-> (fault = "spawn" /\ art.exc = "OSError"),
              waits |-> FALSE, exc |-> art.exc, temp_dir |-> art.temp_dir]
        ELSE [result |-> r, called |-> TRUE, waits |-> TRUE, exc |-> "",
              temp_dir |-> art.temp_dir]

\* run_test up to the wait for the engine: the result so far, whether
\* subprocess.run was called, whether run_test waits for the engine, the
\* exception the try block caught ("" for none), the scratch directory.
run_test(fixture, fault, n, td) ==
    LET r == NewResult(fixture)
        reason == SkipReason(fixture)
        art == Artifacts(fixture, fault, td)
    IN  IF reason # None
        THEN [result |-> Skipped(r, reason), called |-> FALSE,
              waits |-> FALSE, exc |-> "", temp_dir |-> td]
        ELSE IF art.exc # ""
        THEN [result |-> OnException(r, art.exc, n),
              called |-> (fault = "spawn" /\ art.exc = "OSError"),
              waits |-> FALSE, exc |-> art.exc, temp_dir |-> art.temp_dir]
        ELSE [result |-> r, called |-> TRUE, waits |-> TRUE, exc |-> "",
              temp_dir |-> art.temp_dir]

(***************************************************************************)
(* Report generation.                                                      *)
(***************************************************************************)
\* name.split('_')[0], a name being the sequence of its tokens
Category(name) ==
    LET us == {k \in 1..Len(name) : name[k] = "_"}
    IN  IF us = {} THEN name
        ELSE SubSeq(name, 1, (CHOOSE k \in us : \A j \in us : k <= j) - 1)

CountWhere(rs, status) ==
    Cardinality({k \in 1..Len(rs) : rs[k].status = status})

\* Variant of generate_report: the errors of a category count the timeouts
\* as well.
generate_reportTimeoutAsError(rs) ==
    LET statuses == {rs[k].status : k \in 1..Len(rs)}
        categories == {Category(rs[k].name) : k \in 1..Len(rs)}
        InCat(c) == SelectSeq(rs, LAMBDA r : Category(r.name) = c)
    IN  [total |-> Len(rs),
         status_counts |-> [s \in statuses |-> CountWhere(rs, s)],
         by_category |->
            [c \in categories |->
                [total |-> Len(InCat(c)),
                 compiled |-> CountWhere(InCat(c), "compiled"),
                 skipped |-> CountWhere(InCat(c), "skipped"),
                 errors |-> CountWhere(InCat(c), "error")
                              + CountWhere(InCat(c), "timeout")]]]

generate_report(rs) ==
    LET statuses == {rs[k].status : k \in 1..Len(rs)}
        categories == {Category(rs[k].name) : k \in 1..Len(rs)}
        InCat(c) == SelectSeq(rs, LAMBDA r : Category(r.name) = c)
    IN  [total |-> Len(rs),
         status_counts |-> [s \in statuses |-> CountWhere(rs, s)],
         by_category |->
            [c \in categories |->
                [total |-> Len(InCat(c)),
                 compiled |-> CountWhere(InCat(c), "compiled"),
                 skipped |-> CountWhere(InCat(c), "skipped"),
                 errors |-> CountWhere(InCat(c), "error")]]]

(***************************************************************************)
(* main.                                                                   *)
(***************************************************************************)
\* if not fixtures_dir.exists(): sys.exit(1); then the sorted file list
Start ==
    /\ pc = "start"
    /\ pc' = IF dirExists THEN "parse" ELSE "exit1"
    /\ UNCHANGED <<dirExists, fixture_files, fidx, fixtures, ridx, results,
                   result, temp_dir, engine_calls, report, outcomes>>

\* One pass of the parse loop.  An exception of parse_fixture is not caught.
ParseNext ==
    /\ pc = "parse"
    /\ fidx <= Len(fixture_files)
    /\ LET fixture == parse_fixture(fixture_files[fidx])
       IN  IF ~fixture.ok
           THEN pc' = "raised" /\ UNCHANGED <<fidx, fixtures>>
           ELSE /\ fixtures' = IF Truthy(fixture.v)
                               THEN Append(fixtures, fixture.v) ELSE fixtures
                /\ fidx' = fidx + 1
                /\ pc' = pc
    /\ UNCHANGED <<dirExists, fixture_files, ridx, results, result, temp_dir,
                   engine_calls, report, outcomes>>

\* End of the parse loop; temp_path.mkdir
ParseDone ==
    /\ pc = "parse"
    /\ fidx > Len(fixture_files)
    /\ pc' = "run"
    /\ UNCHANGED <<dirExists, fixture_files, fidx, fixtures, ridx, results,
                   result, temp_dir, engine_calls, report, outcomes>>

\* One pass of the run loop up to the return of run_test or to its wait
\* for the engine.
RunTest(fault, n) ==
    /\ pc = "run"
    /\ ridx <= Len(fixtures)
    /\ LET fixture == fixtures[ridx]
           rt == run_test(fixture, fault, n, temp_dir)
       IN  /\ temp_dir' = rt.temp_dir
           /\ engine_calls' = IF rt.called
                              THEN Append(engine_calls, fixture.name)
                              ELSE engine_calls
           /\ IF rt.waits
              THEN /\ pc' = "waiting"
                   /\ result' = rt.result
                   /\ UNCHANGED <<results, ridx, outcomes>>
              ELSE /\ results' = Append(results, rt.result)
                   /\ outcomes' = Append(outcomes,
                        IF rt.exc = "" THEN [kind |-> "skipped"]
                        ELSE [kind |-> "raised", exc |-> rt.exc, len |-> n])
                   /\ ridx' = ridx + 1
                   /\ UNCHANGED <<pc, result>>
    /\ UNCHANGED <<dirExists, fixture_files, fidx, fixtures, report>>

\* The engine returns within the timeout; typst writes the pdf on success.
EngineExit(returncode, n) ==
    /\ pc = "waiting"
    /\ results' = Append(results, OnExit(result, returncode, Chars("stderr", n)))
    /\ outcomes' = Append(outcomes, [kind |-> "exit", returncode |-> returncode,
                                     stderr |-> Chars("stderr", n)])
    /\ temp_dir' = IF returncode = 0
                   THEN Write(temp_dir, result.name, "pdf", None)
                   ELSE temp_dir
    /\ result' = None
    /\ ridx' = ridx + 1
    /\ pc' = "run"
    /\ UNCHANGED <<dirExists, fixture_files, fidx, fixtures, engine_calls,
                   report>>

\* subprocess.run raises TimeoutExpired after the timeout.
EngineTimeout ==
    /\ pc = "waiting"
    /\ results' = Append(results, OnTimeout(result))
    /\ outcomes' = Append(outcomes, [kind |-> "timeout"])
    /\ result' = None
    /\ ridx' = ridx + 1
    /\ pc' = "run"
    /\ UNCHANGED <<dirExists, fixture_files, fidx, fixtures, temp_dir,
                   engine_calls, report>>

\* End of the run loop: generate_report and the summary.
Report ==
    /\ pc = "run"
    /\ ridx > Len(fixtures)
    /\ report' = generate_report(results)
    /\ pc' = "done"
    /\ UNCHANGED <<dirExists, fixture_files, fidx, fixtures, ridx, results,
                   result, temp_dir, engine_calls, outcomes>>

MainStep ==
    \/ Start
    \/ ParseNext
    \/ ParseDone
    \/ \E fault \in Faults, n \in TextLens : RunTest(fault, n)
    \/ Report

Next ==
    \/ Start
    \/ ParseNext
    \/ ParseDone
    \/ \E fault \in Faults, n \in TextLens : RunTest(fault, n)
    \/ \E returncode \in {0, 1}, n \in TextLens : EngineExit(returncode, n)
    \/ EngineTimeout
    \/ Report

(***************************************************************************)
(* The corpora.                                                            *)
(***************************************************************************)
\* File names in sorted order; a name is the sequence of its tokens.
Stem(k) == <<IF k <= 1 THEN "affix" ELSE "bugreports", "_", ToString(k)>>

File(k, content) == [stem |-> Stem(k), content |-> content]

Content(mode, res, csl, input, citation_items, citations, abbreviations) ==
    ("MODE" :> mode) @@ ("RESULT" :> res) @@ ("CSL" :> csl) @@
    ("INPUT" :> input) @@ ("CITATION-ITEMS" :> citation_items) @@
    ("CITATIONS" :> citations) @@ ("ABBREVIATIONS" :> abbreviations)

CslPlain == Csl(<<"<style", "<citation", "</style>">>)
CslBib == Csl(<<"<style", "<citation", "<bibliography", "</style>">>)
CslXmlns == Csl(<<"<style", "xmlns:cs", "<citation", "<bibliography", "</style>">>)
CslM == Csl(<<"<style", "CSL-M", "<citation", "<bibliography", "</style>">>)
CslMPlain == Csl(<<"<style", "csl-m", "<citation", "</style>">>)

RecXT == JDict(<< <<"id", JStr("X")>>, <<"title", JStr("T")>> >>)
RecT == JDict(<< <<"title", JStr("T")>> >>)
Abbrevs == JDict(<< <<"default", JDict(<<>>)>> >>)
Cluster == JList(<<JList(<<JDict(<< <<"id", JStr("X")>> >>)>>)>>)

Base ==
    Content(Sec(JStr("bibliography")), Sec(JStr("A.")), Sec(CslBib),
            Sec(JsonText(JList(<<RecXT>>))), NoSec, NoSec, NoSec)

CoreContents ==
    { Base,
      [Base EXCEPT !["ABBREVIATIONS"] = Sec(JsonText(Abbrevs))],
      [Base EXCEPT !["CITATION-ITEMS"] = Sec(BadJson)],
      [Base EXCEPT !["INPUT"] = Sec(JsonText(RecXT))],
      [Base EXCEPT !["INPUT"] = Sec(BadJson)],
      [Base EXCEPT !["MODE"] = NoSec],
      [Base EXCEPT !["MODE"] = Sec(JStr("citation")), !["CSL"] = Sec(CslPlain)] }

Modes ==
    {NoSec, Sec(JStr("")), Sec(JStr("citation")), Sec(JStr("bibliography")),
     Sec(JStr("bibliography-nosort"))}
Results == {NoSec, Sec(JStr("A."))}
Csls == {NoSec, Sec(CslPlain), Sec(CslBib), Sec(CslXmlns), Sec(CslM),
         Sec(CslMPlain)}
Inputs ==
    {NoSec, Sec(BadJson), Sec(JsonText(JList(<<RecXT>>))),
     Sec(JsonText(JList(<<RecT>>))), Sec(JsonText(JList(<<>>))),
     Sec(JsonText(RecXT)), Sec(JsonText(JNum(7))),
     Sec(JsonText(JList(<<JNum(7)>>)))}
CitationItems ==
    {NoSec, Sec(BadJson), Sec(JsonText(Cluster)), Sec(JsonText(JList(<<>>)))}
Citations == {NoSec, Sec(BadJson), Sec(JsonText(JList(<<>>)))}
Abbreviations ==
    {NoSec, Sec(BadJson), Sec(JsonText(JDict(<<>>))), Sec(JsonText(Abbrevs))}

SectionContents ==
    { Content(m, r, c, i, ci, cs, a) :
        m \in Modes, r \in Results, c \in Csls, i \in Inputs,
        ci \in CitationItems, cs \in Citations, a \in Abbreviations }

\* Records of an INPUT list: with or without id, with or without type.
Ids == {JStr("X"), JStr("ITEM-2"), JStr("1"), JNum(1)}
Types == {JStr("chapter"), JStr("patent")}
Records ==
    {JDict(<<>>)}
        \cup {JDict(<< <<"id", v>> >>) : v \in Ids}
        \cup {JDict(<< <<"type", ty>> >>) : ty \in Types}
        \cup {JDict(<< <<"id", JStr("X")>>, <<"type", ty>> >>) : ty \in Types}

RecordLists ==
    UNION {[1..len -> Records] : len \in 0..MaxItems}

ClusterLists ==
    {NoSec, Sec(JsonText(JList(<<>>))), Sec(JsonText(Cluster)),
     Sec(JsonText(JList(<<
        JList(<<JDict(<< <<"id", JStr("Y")>> >>), JDict(<<>>)>>),
        JList(<<JDict(<< <<"id", JStr("X")>> >>)>>)>>)))}

RecordContents ==
    { [Base EXCEPT !["INPUT"] = Sec(JsonText(JList(items))),
                   !["CITATION-ITEMS"] = ci, !["CSL"] = c] :
        items \in RecordLists, ci \in ClusterLists,
        c \in {Sec(CslPlain), Sec(CslBib)} }

InitRun ==
    /\ pc = "start"
    /\ fidx = 1
    /\ fixtures = <<>>
    /\ ridx = 1
    /\ results = <<>>
    /\ result = None
    /\ temp_dir = <<>>
    /\ engine_calls = <<>>
    /\ outcomes = <<>>
    /\ report = None

Init ==
    /\ dirExists \in BOOLEAN
    /\ \E len \in 0..MaxFiles :
         \E contents \in [1..len -> CoreContents] :
            fixture_files = [k \in 1..len |-> File(k, contents[k])]
    /\ dirExists = FALSE => fixture_files = <<>>
    /\ InitRun

InitOne ==
    /\ dirExists \in BOOLEAN
    /\ \/ dirExists = FALSE /\ fixture_files = <<>>
       \/ \E content \in SectionContents \cup RecordContents :
            fixture_files = <<File(1, content)>>
    /\ InitRun

Spec == Init /\ [][Next]_vars

SpecOne == InitOne /\ [][Next]_vars

FairSpec == Init /\ [][Next]_vars /\ WF_vars(MainStep) /\ WF_vars(EngineTimeout)

(***************************************************************************)
(* Properties.  results[k] and outcomes[k] belong to fixtures[k]: the run  *)
(* loop appends one verdict per fixture, in order.                         *)
(***************************************************************************)
FinalStatuses == {"compiled", "error", "timeout", "skipped"}

Range(seq) == {seq[k] : k \in 1..Len(seq)}

Occurrences(seq, x) == Cardinality({k \in 1..Len(seq) : seq[k] = x})

FileNamed(name) == CHOOSE f \in Range(fixture_files) : f.stem = name

SkipPredicate(k, fixture) ==
    CASE k = 1 -> UsesAbbreviations(fixture)
      [] k = 2 -> UsesNosort(fixture)
      [] k = 3 -> UsesCslM(fixture)
      [] k = 4 -> CitationOnly(fixture)

SkipReasonText(k) ==
    CASE k = 1 -> ReasonAbbreviations
      [] k = 2 -> ReasonNosort
      [] k = 3 -> ReasonCslM
      [] k = 4 -> ReasonCitationOnly

Matching(fixture) == {k \in 1..4 : SkipPredicate(k, fixture)}

Lowest(S) == CHOOSE k \in S : \A j \in S : k <= j

C2_StatusAssignedOnce ==
    /\ \A k \in 1..Len(results) :
          /\ results[k].status \in FinalStatuses
          /\ results[k].assigned = 1
    /\ result # None => result.status = "unknown" /\ result.assigned = 0
    /\ report # None => "unknown" \notin DOMAIN report.status_counts

\* The report is written after an engine timeout and a caught exception.
C2_Witness ==
    /\ report # None
    /\ \E j, k \in 1..Len(results) :
          /\ outcomes[j].kind = "timeout"
          /\ outcomes[k].kind = "raised"

\* C3: the run is aborted only when the corpus directory is missing: no
\* fixture file makes main end by an uncaught exception.
C3_OnlyMissingDirAborts == pc \in {"raised", "exit1"} => ~dirExists

RunComplete ==
    /\ pc = "done"
    /\ report # None
    /\ Len(results) = Len(fixtures)
    /\ \A k \in 1..Len(fixtures) : results[k].name = fixtures[k].name

TimeoutHandled ==
    \A k \in 1..Len(results) :
        outcomes[k].kind = "timeout" =>
          /\ results[k].status = "timeout"
          /\ results[k].error = JStr("Compilation timed out")
          /\ Occurrences(engine_calls, results[k].name) = 1

\* C4: a fixture whose engine run hit the timeout has the verdict timeout
\* with the message 'Compilation timed out' and one engine call; and whenever
\* run_test waits for the engine, the run eventually has a verdict for every
\* fixture, in order, and has written the report.
C4_TimeoutGoesOn ==
    /\ []TimeoutHandled
    /\ ((pc = "waiting") ~> RunComplete)

\* The run completed although the engine timed out on a fixture that is not
\* the last one.
C4_Witness ==
    /\ RunComplete
    /\ \E k \in 1..Len(results) : k < Len(results) /\ outcomes[k].kind = "timeout"

\* C5: the verdict of a fixture that is not skipped follows from what
\* happened to it: non-zero exit gives error with the captured standard-error
\* text (as retained, its first StderrLimit characters) and no actual output;
\* zero exit gives compiled with the marker and no error message; timeout
\* gives timeout with the fixed message; an exception gives error with the
\* message of the exception.
C5_VerdictFromOutcome ==
    \A k \in 1..Len(results) :
        LET r == results[k]
            o == outcomes[k]
        IN  /\ o.kind = "exit" /\ o.returncode # 0 =>
                /\ r.status = "error"
                /\ r.error = Slice(o.stderr, StderrLimit)
                /\ r.actual = None
            /\ o.kind = "exit" /\ o.returncode = 0 =>
                /\ r.status = "compiled"
                /\ r.actual = JStr("(PDF generated - manual comparison needed)")
                /\ r.error = None
            /\ o.kind = "timeout" =>
                /\ r.status = "timeout"
                /\ r.error = JStr("Compilation timed out")
                /\ r.actual = None
            /\ o.kind = "raised" =>
                /\ r.status = "error"
                /\ r.error = ExcMessage(o.exc, o.len)
                /\ r.actual = None
            /\ o.kind # "skipped" => r.skipped_reason = None

\* The engine exited with a non-zero code and a long standard-error text.
C5_Witness ==
    \E k \in 1..Len(results) :
        /\ outcomes[k].kind = "exit"
        /\ outcomes[k].returncode # 0
        /\ outcomes[k].stderr.len > StderrLimit

MissingRequired(file) == \E n \in Required : ~file.content[n].matched

\* C6: a file that lacks one of the sections MODE, RESULT, CSL, INPUT makes
\* parse_fixture neither raise nor return a fixture.
C6_MissingSectionNoFixture ==
    \A k \in 1..Len(fixture_files) :
        MissingRequired(fixture_files[k]) =>
          /\ ~(pc = "raised" /\ fidx = k)
          /\ \A j \in 1..Len(fixtures) : fixtures[j].name # fixture_files[k].stem

\* The parse loop got past a file that lacks a required section and has an
\* optional section that is not JSON.
C6_Witness ==
    \E k \in 1..Len(fixture_files) :
        /\ MissingRequired(fixture_files[k])
        /\ fixture_files[k].content["CITATION-ITEMS"] = Sec(BadJson)
        /\ fidx > k

IsRecordList(v) ==
    v.t = "list" /\ \A j \in 1..Len(v.items) : v.items[j].t = "dict"

\* C7: the INPUT of every fixture parse_fixture returns is a list of records.
C7_InputIsRecordList ==
    \A k \in 1..Len(fixtures) : IsRecordList(fixtures[k].input_data)

ExpectedId(k, item) ==
    IF HasKey(item, "id") THEN Str(Get(item, "id", None))
    ELSE "ITEM-" \o ToString(k)

HasFile(name, ext) == <<name, ext>> \in DOMAIN temp_dir

\* C8: in the files run_test wrote for a fixture whose INPUT is a list of
\* records, the entry at position k has the id of record k, or ITEM-k when
\* record k has no id; and when the fixture has no citation clusters the
\* program cites, at position k, '@' followed by that id.
C8_IdBackfill ==
    \A f \in Range(fixtures) :
        IsRecordList(f.input_data) =>
          LET items == f.input_data.items
              bib == temp_dir[<<f.name, "bib">>]
              prog == temp_dir[<<f.name, "typ">>]
          IN  /\ HasFile(f.name, "bib") =>
                  /\ Len(bib) = Len(items)
                  /\ \A k \in 1..Len(items) : bib[k].id = ExpectedId(k, items[k])
              /\ HasFile(f.name, "typ") /\ ~Truthy(f.citation_items) =>
                  /\ Len(prog.citations) = Len(items)
                  /\ \A k \in 1..Len(items) :
                        prog.citations[k] = "@" \o ExpectedId(k, items[k])

\* A program was written for a fixture without citation clusters whose first
\* record has an id and whose second record has none.
C8_Witness ==
    \E f \in Range(fixtures) :
        /\ IsRecordList(f.input_data)
        /\ Len(f.input_data.items) = 2
        /\ HasKey(f.input_data.items[1], "id")
        /\ ~HasKey(f.input_data.items[2], "id")
        /\ ~Truthy(f.citation_items)
        /\ HasFile(f.name, "typ")

\* C9 as claimed: the ids of the entries of every adapted-data file are
\* pairwise distinct.
C9_IdsDistinct ==
    \A p \in DOMAIN temp_dir :
        p[2] = "bib" =>
          \A j, k \in 1..Len(temp_dir[p]) :
              j # k => temp_dir[p][j].id # temp_dir[p][k].id

\* The explicit ids of a record list, as text, are pairwise distinct and none
\* is the ITEM-k of a position k whose record has no id.
ExplicitIdsApart(items) ==
    \A j, k \in 1..Len(items) :
        j # k /\ HasKey(items[j], "id") =>
            Str(Get(items[j], "id", None)) # ExpectedId(k, items[k])

\* C9 amended: when the explicit ids of the records are pairwise distinct as
\* text and none equals the ITEM-k of a record without id, the ids of the
\* entries are pairwise distinct.
C9_IdsDistinctWhenInputAllows ==
    \A f \in Range(fixtures) :
        (/\ IsRecordList(f.input_data)
         /\ HasFile(f.name, "bib")
         /\ ExplicitIdsApart(f.input_data.items)) =>
            LET bib == temp_dir[<<f.name, "bib">>]
            IN  \A j, k \in 1..Len(bib) : j # k => bib[j].id # bib[k].id

\* Entries were written for two records, one of them without id.
C9_Witness ==
    \E f \in Range(fixtures) :
        /\ IsRecordList(f.input_data)
        /\ Len(f.input_data.items) = 2
        /\ HasKey(f.input_data.items[1], "id")
        /\ ~HasKey(f.input_data.items[2], "id")
        /\ ExplicitIdsApart(f.input_data.items)
        /\ HasFile(f.name, "bib")

\* C10: a fixture whose file has an ABBREVIATIONS section never reaches the
\* engine, and its verdict is skipped with the abbreviations reason.
C10_AbbreviationsSectionSkipped ==
    \A k \in 1..Len(fixtures) :
        FileNamed(fixtures[k].name).content["ABBREVIATIONS"].matched =>
          /\ Occurrences(engine_calls, fixtures[k].name) = 0
          /\ k <= Len(results) =>
                /\ results[k].status = "skipped"
                /\ results[k].skipped_reason = ReasonAbbreviations

RECURSIVE SumOver(_, _)
SumOver(f, S) ==
    IF S = {} THEN 0
    ELSE LET x == CHOOSE y \in S : TRUE
         IN  f[x] + SumOver(f, S \ {x})

Accounted(b) == b.compiled + b.skipped + b.errors

\* C11: in the report of a verdict list the counts of the status histogram
\* sum to the number of verdicts, the totals of the categories sum to the
\* number of verdicts, and in every category compiled + skipped + errors is
\* at most the total of the category, equal exactly when the category has no
\* verdict of status timeout or unknown.
C11_ReportCounts ==
    report # None =>
      LET cats == DOMAIN report.by_category
          totals == [c \in cats |-> report.by_category[c].total]
      IN  /\ SumOver(report.status_counts, DOMAIN report.status_counts)
                = Len(results)
          /\ report.total = Len(results)
          /\ SumOver(totals, cats) = Len(results)
          /\ \A c \in cats :
                LET b == report.by_category[c]
                    other == \E k \in 1..Len(results) :
                                /\ Category(results[k].name) = c
                                /\ results[k].status \in {"timeout", "unknown"}
                IN  /\ Accounted(b) <= b.total
                    /\ (Accounted(b) = b.total) <=> ~other

\* A report over two categories, one of them with a timeout verdict, the
\* other fully accounted for.
C11_Witness ==
    /\ report # None
    /\ \E c, d \in DOMAIN report.by_category :
          /\ c # d
          /\ Accounted(report.by_category[c]) < report.by_category[c].total
          /\ Accounted(report.by_category[d]) = report.by_category[d].total

\* C12, as far as it goes beyond skipping: under Policy A a citation-mode
\* fixture whose style has no '<bibliography' (and that matches no earlier
\* skip condition) is not skipped, the style written for it has a
\* bibliography inserted, and the program written for it has the
\* bibliography directive.  run_test and main take no parameter that selects
\* a policy, so the behaviour of Policy A would have to be among theirs.
C12_PolicyAExecutes ==
    \A k \in 1..Len(results) :
        SkipReason(fixtures[k]) = ReasonCitationOnly =>
          LET name == fixtures[k].name
          IN  /\ results[k].status # "skipped"
              /\ HasFile(name, "csl") =>
                    Contains(temp_dir[<<name, "csl">>], "<bibliography")
              /\ HasFile(name, "typ") => temp_dir[<<name, "typ">>].has_bib

\* The behaviour run_test has for such a fixture (Policy B): the verdict is
\* skipped with the citation-only reason and no style file is written.
PolicyBSkips ==
    \A k \in 1..Len(results) :
        SkipReason(fixtures[k]) = ReasonCitationOnly =>
          /\ results[k].status = "skipped"
          /\ results[k].skipped_reason = ReasonCitationOnly
          /\ ~HasFile(fixtures[k].name, "csl")

\* The step appends a skipped verdict.
AppendsSkipped ==
    /\ Len(results') = Len(results) + 1
    /\ results'[Len(results')].status = "skipped"

SkippedLeftNothing ==
    \A k \in 1..Len(results) :
        results[k].status = "skipped" =>
          /\ \A p \in DOMAIN temp_dir : p[1] # results[k].name
          /\ Occurrences(engine_calls, results[k].name) = 0

\* C13: the step of run_test that gives a skipped verdict leaves the scratch
\* directory and the list of engine invocations as they were; no file of the
\* scratch directory belongs to a skipped fixture and the engine was never
\* invoked for one.
C13_SkipTouchesNothing ==
    /\ [][AppendsSkipped =>
            /\ temp_dir' = temp_dir
            /\ engine_calls' = engine_calls]_vars
    /\ []SkippedLeftNothing

\* A fixture was skipped after an earlier fixture had its files written and
\* the engine invoked.
C13_Witness ==
    \E k \in 1..Len(results) :
        /\ results[k].status = "skipped"
        /\ DOMAIN temp_dir # {}
        /\ engine_calls # <<>>

\* citation_items is a list of clusters, each a list of entries.
IsClusterList(v) ==
    v.t = "list" /\ \A j \in 1..Len(v.items) : v.items[j].t = "list"

\* The entries of the clusters, cluster by cluster.
RECURSIVE Entries(_)
Entries(clusters) ==
    IF clusters = <<>> THEN <<>>
    ELSE Head(clusters).items \o Entries(Tail(clusters))

HasId(entry) == HasKey(entry, "id")

Cite(entry) == "@" \o Str(Get(entry, "id", None))

\* What C14 says of a fixture without citation clusters and of the
\* bibliography directive: one citation per input record, in input order,
\* and the directive exactly when the CSL section has '<bibliography'.
RecordKeysAndDirective(f) ==
    LET prog == temp_dir[<<f.name, "typ">>]
        items == f.input_data.items
    IN  /\ ~Truthy(f.citation_items) =>
              /\ Len(prog.citations) = Len(items)
              /\ \A k \in 1..Len(items) :
                    prog.citations[k] = "@" \o ExpectedId(k, items[k])
        /\ prog.has_bib <=>
              Contains(FileNamed(f.name).content["CSL"].body, "<bibliography")

Generated(f) ==
    /\ HasFile(f.name, "typ")
    /\ IsRecordList(f.input_data)
    /\ Truthy(f.citation_items) => IsClusterList(f.citation_items)

\* C14 as claimed: the program of a fixture with citation clusters has one
\* citation per cluster entry, cluster by cluster and in the order of the
\* cluster, each citing the id of its entry; the program of a fixture without
\* clusters cites every input record in order; the bibliography directive is
\* there exactly when the style has '<bibliography'.
C14_OneKeyPerEntry ==
    \A f \in Range(fixtures) :
        Generated(f) =>
          LET prog == temp_dir[<<f.name, "typ">>]
              entries == Entries(f.citation_items.items)
          IN  /\ RecordKeysAndDirective(f)
              /\ Truthy(f.citation_items) =>
                    /\ Len(prog.citations) = Len(entries)
                    /\ \A j \in 1..Len(entries) :
                          HasId(entries[j]) => prog.citations[j] = Cite(entries[j])

\* C14 amended: the citations of a fixture with citation clusters are those
\* of the cluster entries that have an id, in the order of the clusters and
\* within a cluster; entries without id give no citation.
C14_OneKeyPerEntryWithId ==
    \A f \in Range(fixtures) :
        Generated(f) =>
          LET prog == temp_dir[<<f.name, "typ">>]
              withId == SelectSeq(Entries(f.citation_items.items), HasId)
          IN  /\ RecordKeysAndDirective(f)
              /\ Truthy(f.citation_items) =>
                    /\ Len(prog.citations) = Len(withId)
                    /\ \A j \in 1..Len(withId) :
                          prog.citations[j] = Cite(withId[j])

\* A program was written for a fixture with two clusters, three entries, one
\* of them without id.
C14_Witness ==
    \E f \in Range(fixtures) :
        /\ Generated(f)
        /\ Truthy(f.citation_items)
        /\ Len(f.citation_items.items) = 2
        /\ Len(Entries(f.citation_items.items)) = 3
        /\ Len(temp_dir[<<f.name, "typ">>].citations) = 2

\* The entry type C15 states for a record.
ClaimedType(item) ==
    LET ty == Get(item, "type", None)
    IN  IF HasKey(item, "type") /\ ty.t = "str" /\ ty.s \in DOMAIN type_map
        THEN type_map[ty.s]
        ELSE "misc"

\* C15: in the adapted-data file of a fixture whose INPUT is a list of
\* records, the type of entry k is the value type_map has for the 'type' of
\* record k, and 'misc' when type_map does not have that type or record k
\* has no 'type'.
C15_TypeOrMisc ==
    \A f \in Range(fixtures) :
        IsRecordList(f.input_data) /\ HasFile(f.name, "bib") =>
          LET items == f.input_data.items
              bib == temp_dir[<<f.name, "bib">>]
          IN  \A k \in 1..Len(items) : bib[k].type = ClaimedType(items[k])

\* C15 amended: the type of entry k is the value type_map has for the
\* 'type' of record k, 'misc' when type_map does not have that type, and
\* 'book' when record k has no 'type'.
C15_TypeOrMiscOrBook ==
    \A f \in Range(fixtures) :
        IsRecordList(f.input_data) /\ HasFile(f.name, "bib") =>
          LET items == f.input_data.items
              bib == temp_dir[<<f.name, "bib">>]
          IN  \A k \in 1..Len(items) :
                bib[k].type = IF HasKey(items[k], "type")
                              THEN ClaimedType(items[k]) ELSE "book"

\* Entries were written for a record without type and a record whose type
\* the table does not have.
C15_Witness ==
    \E f \in Range(fixtures) :
        /\ IsRecordList(f.input_data)
        /\ HasFile(f.name, "bib")
        /\ \E j, k \in 1..Len(f.input_data.items) :
              /\ ~HasKey(f.input_data.items[j], "type")
              /\ Get(f.input_data.items[k], "type", None) = JStr("patent")

\* len(text)
TextLen(text) == IF text.t = "chars" THEN text.len ELSE Len(text.s)

\* C16: the error message of every verdict, whichever way run_test came to
\* it (non-zero exit, timeout, caught exception), is None or has at most
\* StderrLimit characters.
C16_ErrorAtMostLimit ==
    \A k \in 1..Len(results) :
        results[k].error # None => TextLen(results[k].error) <= StderrLimit

\* The part of C16 that run_test keeps: the message of a verdict that comes
\* from the exit of the engine or from its timeout is within the limit.
ExitErrorAtMostLimit ==
    \A k \in 1..Len(results) :
        outcomes[k].kind \in {"exit", "timeout"} /\ results[k].error # None =>
            TextLen(results[k].error) <= StderrLimit

====
